---------------------------- MODULE Spec2Model ----------------------------
(***************************************************************************)
(* Model of the Open Graph image generator of the site                     *)
(* (.vitepress/generateOg.mts, genOg) and of the build hook that calls it  *)
(* (transformPageData in the site configuration).                          *)
(*                                                                         *)
(* Strings are sequences of characters.  A character of a title is a       *)
(* record [c |-> class, at |-> index]: c is the class the regular          *)
(* expressions of the code distinguish ("a" a non-whitespace character,    *)
(* " " a whitespace character that `.` matches, "\n" a line terminator,    *)
(* which \s matches and `.` does not), and at is the index of the          *)
(* character in the title as it was passed in, so that every character of  *)
(* a title is distinct and its way through trim, split and replace can be  *)
(* followed.  Positions inside the regular-expression operators are        *)
(* 0-based, as in ECMAScript; S[q + 1] is the character at position q.     *)
(***************************************************************************)
EXTENDS Integers, Sequences, FiniteSets, TLC

VARIABLES fs, readOnly, ogSvg, load, inv, log

vars == <<fs, readOnly, ogSvg, load, inv, log>>

-----------------------------------------------------------------------------
(* Bounds of the model *)

\* number of transformPageData invocations in one run of Spec
MaxInv == 2
\* largest number of words in a title of SpecSeg
MaxWords == 2

(* Program constants *)

\* .{0,30} in the split pattern
Limit == 30
\* resize(1440, 810)
OgWidth == 1440
OgHeight == 810
\* og:image:width and og:image:height in the head of the site
HeadWidth == 1200
HeadHeight == 630

-----------------------------------------------------------------------------
(* Strings *)

Ch(cls, i) == [c |-> cls, at |-> i]

\* a string from the sequence of its characters' classes (SubSeq makes the
\* function a sequence, element by element)
Str(classes) ==
    SubSeq([i \in 1..Len(classes) |-> Ch(classes[i], i)], 1, Len(classes))

\* S[from, to) with 0-based positions, as String.prototype.slice
Slice(S, from, to) == IF to <= from THEN <<>> ELSE SubSeq(S, from + 1, to)

\* \s of a regular expression
IsSpace(ch) == ch.c \in {" ", "\n"}

\* . of a regular expression (no s flag): anything but a line terminator
IsDot(ch) == ch.c # "\n"

Range(s) == {s[i] : i \in 1..Len(s)}

\* String.prototype.trim: the whitespace at both ends goes
RECURSIVE TrimStart(_)
TrimStart(S) ==
    IF S # <<>> /\ IsSpace(Head(S)) THEN TrimStart(Tail(S)) ELSE S

RECURSIVE TrimEnd(_)
TrimEnd(S) ==
    IF S # <<>> /\ IsSpace(S[Len(S)])
    THEN TrimEnd(SubSeq(S, 1, Len(S) - 1)) ELSE S

\* a trim that takes nothing away
TrimNothing(S) == S

Trim(S) == TrimEnd(TrimStart(S))


-----------------------------------------------------------------------------
(* Title segmentation: title.trim().split(/(.{0,30})(?:\s|$)/g).filter(Boolean) *)

\* a quantifier that stops one character short of the limit
RECURSIVE DotRunShort(_, _, _)
DotRunShort(S, q, k) ==
    IF k < Limit - 1 /\ q + k < Len(S) /\ IsDot(S[q + k + 1])
    THEN DotRunShort(S, q, k + 1)
    ELSE k

\* .{0,30} at position q, having taken k characters: it takes one more while
\* it may (greedy), and ends with the number of characters taken
RECURSIVE DotRun(_, _, _)
DotRun(S, q, k) ==
    IF k < Limit /\ q + k < Len(S) /\ IsDot(S[q + k + 1])
    THEN DotRun(S, q, k + 1)
    ELSE k

\* (?:\s|$) at position e: a whitespace character, or the end of the input
EndsLine(S, e) == e = Len(S) \/ (e < Len(S) /\ IsSpace(S[e + 1]))

\* a capture that is cut where the quantifier stopped, whatever follows it
BacktrackNone(S, q, k) == k

\* backtracking: the capture gives characters back, one at a time, until a
\* whitespace or the end follows it; -1 when it has none left to give
RECURSIVE Backtrack(_, _, _)
Backtrack(S, q, k) ==
    IF k < 0 THEN -1
    ELSE IF EndsLine(S, q + k) THEN k
    ELSE Backtrack(S, q, k - 1)

\* a lazy quantifier, .{0,30}?: the capture takes the fewest characters
\* after which a whitespace or the end follows
RECURSIVE LazyRun(_, _, _)
LazyRun(S, q, k) ==
    IF EndsLine(S, q + k) THEN k
    ELSE IF k < Limit /\ q + k < Len(S) /\ IsDot(S[q + k + 1])
    THEN LazyRun(S, q, k + 1)
    ELSE -1

MatchAtLazy(S, q) == LazyRun(S, q, 0)

\* the length of the capture of a match that starts exactly at q, -1 when the
\* pattern does not match there
MatchAt(S, q) == Backtrack(S, q, DotRun(S, q, 0))

\* where a match at q with a capture of k characters ends: \s consumes the
\* whitespace, $ consumes nothing
MatchEnd(S, q, k) == IF q + k < Len(S) THEN q + k + 1 ELSE q + k

\* the first position from q on where the pattern matches and the match does
\* not end at p; Len(S) when there is none
RECURSIVE NextMatch(_, _, _)
NextMatch(S, p, q) ==
    IF q >= Len(S) THEN Len(S)
    ELSE LET k == MatchAt(S, q)
         IN  IF k >= 0 /\ MatchEnd(S, q, k) # p THEN q
             ELSE NextMatch(S, p, q + 1)

\* a split loop that drops the text between two matches
RECURSIVE SplitLoopNoHead(_, _)
SplitLoopNoHead(S, p) ==
    LET q == NextMatch(S, p, p)
    IN  IF q >= Len(S)
        THEN <<Slice(S, p, Len(S))>>
        ELSE LET k == MatchAt(S, q)
             IN  <<Slice(S, q, q + k)>> \o SplitLoopNoHead(S, MatchEnd(S, q, k))

\* the loop of RegExp.prototype[@@split]: p is the end of the last match, q
\* the position tried; a match at q that does not end at p emits S[p, q) and
\* the capture, and the part after the last match is emitted at the end
RECURSIVE SplitLoop(_, _)
SplitLoop(S, p) ==
    LET q == NextMatch(S, p, p)
    IN  IF q >= Len(S)
        THEN <<Slice(S, p, Len(S))>>
        ELSE LET k == MatchAt(S, q)
             IN  <<Slice(S, p, q), Slice(S, q, q + k)>>
                     \o SplitLoop(S, MatchEnd(S, q, k))

\* String.prototype.split with the pattern: an empty input that the pattern
\* matches gives no element at all
Split(S) ==
    IF Len(S) = 0
    THEN IF MatchAt(S, 0) >= 0 THEN <<>> ELSE <<S>>
    ELSE SplitLoop(S, 0)

\* .filter(Boolean) on strings: the empty strings go
FilterBoolean(parts) == SelectSeq(parts, LAMBDA x : x # <<>>)

\* const lines = title.trim().split(...).filter(Boolean)
Lines(title) == FilterBoolean(Split(Trim(title)))

-----------------------------------------------------------------------------
(* Template substitution: ogSvg.replace(/\{\{([^}]+)\}\}/g, (_, name) => data[name] || '') *)

\* a character of the template: a brace, a piece of markup, or one character
\* of a placeholder name (a name is written as one character per word)
Tpl(cls) == Ch(cls, 0)

\* properties every object inherits from Object.prototype
ObjectProtoNames == {<<"constructor">>, <<"toString">>, <<"valueOf">>}

\* String(Object.prototype[name]): the source text of a native function
NativeText == <<Tpl("native")>>

\* lines[n - 1], undefined (here the empty string) when there is no such line
LineAt(lines, n) == IF n <= Len(lines) THEN lines[n] ELSE <<>>

\* a title3 that takes all the lines from the third on
DataRest(lines, name) ==
    IF name = <<"title1">> THEN LineAt(lines, 1)
    ELSE IF name = <<"title2">> THEN LineAt(lines, 2)
    ELSE IF name = <<"title3">> THEN LineAt(lines, 3) \o LineAt(lines, 4)
    ELSE <<>>

\* data[name] || '' with data = { title1: lines[0], title2: lines[1], title3: lines[2] }
Data(lines, name) ==
    IF name = <<"title1">> THEN LineAt(lines, 1)
    ELSE IF name = <<"title2">> THEN LineAt(lines, 2)
    ELSE IF name = <<"title3">> THEN LineAt(lines, 3)
    ELSE IF name \in ObjectProtoNames THEN NativeText
    ELSE <<>>

\* [^}]+ at position q, having taken m characters: the run of characters
\* that are not a closing brace
RECURSIVE NameRun(_, _, _)
NameRun(T, q, m) ==
    IF q + m < Len(T) /\ T[q + m + 1].c # "}"
    THEN NameRun(T, q, m + 1)
    ELSE m

\* the length of the name of a marker {{name}} that starts exactly at q, 0
\* when there is none
MarkerAt(T, q) ==
    IF q + 2 <= Len(T) /\ T[q + 1].c = "{" /\ T[q + 2].c = "{"
    THEN LET m == NameRun(T, q + 2, 0)
         IN  IF /\ m >= 1
                /\ q + m + 4 <= Len(T)
                /\ T[q + m + 3].c = "}" /\ T[q + m + 4].c = "}"
             THEN m ELSE 0
    ELSE 0

\* the first position from q on where a marker starts; Len(T) when none does
RECURSIVE NextMarker(_, _)
NextMarker(T, q) ==
    IF q >= Len(T) THEN Len(T)
    ELSE IF MarkerAt(T, q) > 0 THEN q
    ELSE NextMarker(T, q + 1)

\* the name of the marker at q, as the sequence of its characters
RECURSIVE NameOf(_, _, _)
NameOf(T, q, m) ==
    IF m = 0 THEN <<>> ELSE NameOf(T, q, m - 1) \o <<T[q + 2 + m].c>>

\* a replace without the g flag: the first marker only
ReplaceFirst(T, p, lines) ==
    LET q == NextMarker(T, p)
    IN  IF q >= Len(T)
        THEN Slice(T, p, Len(T))
        ELSE LET m == MarkerAt(T, q)
             IN  Slice(T, p, q) \o Data(lines, NameOf(T, q, m))
                     \o Slice(T, q + m + 4, Len(T))

\* String.prototype.replace with a global pattern and a function: every
\* marker from the left, the text between them kept, the replacement text
\* not scanned again
RECURSIVE ReplaceFrom(_, _, _)
ReplaceFrom(T, p, lines) ==
    LET q == NextMarker(T, p)
    IN  IF q >= Len(T)
        THEN Slice(T, p, Len(T))
        ELSE LET m == MarkerAt(T, q)
             IN  Slice(T, p, q) \o Data(lines, NameOf(T, q, m))
                     \o ReplaceFrom(T, q + m + 4, lines)

Render(T, lines) == ReplaceFrom(T, 0, lines)

-----------------------------------------------------------------------------
(* Pages, paths and the file system *)

\* a title made of words of the given lengths; sep[i] is the whitespace
\* character after word i, pad the whitespace put before and after the title
Word(n) == [i \in 1..n |-> "a"]

RECURSIVE Classes(_, _)
Classes(lens, seps) ==
    IF lens = <<>> THEN <<>>
    ELSE Word(Head(lens))
             \o (IF Len(lens) > 1 THEN <<Head(seps)>> ELSE <<>>)
             \o Classes(Tail(lens), Tail(seps))

Title(lens, seps, pad) == Str(pad \o Classes(lens, seps \o <<" ">>) \o pad)

\* siteConfig.site.title, "Tech Emiretus"
SiteTitle == Title(<<4, 8>>, <<" ">>, <<>>)

\* const siteUrl
SiteUrl == <<"https://techemiretus.dev">>

\* siteConfig.srcDir and the directories of the images under it; a path is
\* the sequence of its segments, a segment a sequence of words
SrcDir == <<<<"src">>>>
PublicDir == SrcDir \o <<<<"public">>>>
OgDir == PublicDir \o <<<<"og">>>>

\* the pages of the site, by pageData.filePath (a sequence of words, "/" the
\* separator)
FilePaths ==
    { <<"index", ".md">>,
      <<"blog", "/", "a", ".md">>,
      <<"blog", "-", "a", ".md">> }

\* filePath.replaceAll(/\//g, '-').replace(/\.md$/, '.png')
RECURSIVE ReplaceAllSlash(_)
ReplaceAllSlash(path) ==
    IF path = <<>> THEN <<>>
    ELSE <<IF Head(path) = "/" THEN "-" ELSE Head(path)>>
             \o ReplaceAllSlash(Tail(path))

OgName(filePath) ==
    LET dashed == ReplaceAllSlash(filePath)
    IN  IF Len(dashed) > 0 /\ dashed[Len(dashed)] = ".md"
        THEN SubSeq(dashed, 1, Len(dashed) - 1) \o <<".png">>
        ELSE dashed

\* joinURL(siteConfig.srcDir, 'public', 'og', ogName)
OutputOf(filePath) == OgDir \o <<OgName(filePath)>>

\* joinURL(siteUrl, 'og', ogName)
ImageUrl(filePath) == <<SiteUrl, <<"og">>, OgName(filePath)>>

\* dirname(output)
Dirname(path) == SubSeq(path, 1, Len(path) - 1)

Outputs == {OutputOf(f) : f \in FilePaths}
Dirs == {SrcDir, PublicDir, OgDir}
Paths == Dirs \cup Outputs

\* what is at a path: nothing, a directory, or a file with its content (the
\* image, the rendered document it was made from, the invocation that wrote
\* it, 0 for a file of an earlier build) and the number of times it was
\* written in this run
NoData == [width |-> 0, height |-> 0, doc |-> <<>>, by |-> 0]
Absent == [kind |-> "absent", data |-> NoData, writes |-> 0]
Dir == [kind |-> "dir", data |-> NoData, writes |-> 0]
OldFile == [kind |-> "file", data |-> NoData, writes |-> 0]

\* an existence check that never finds anything
ExistsSyncNever(f, path) == FALSE

\* existsSync(path): something is there, whatever its kind
ExistsSync(f, path) == f[path].kind # "absent"

\* mkdirSync(dir, { recursive: true }): every missing directory of the chain
\* is made, from the top; a file in the chain or a parent that cannot be
\* written stops it with an error, the directories made so far stay
RECURSIVE MkdirFrom(_, _, _, _)
MkdirFrom(f, ro, dir, k) ==
    IF k > Len(dir) THEN [fs |-> f, err |-> <<>>]
    ELSE LET pre == SubSeq(dir, 1, k)
         IN  IF f[pre].kind = "dir" THEN MkdirFrom(f, ro, dir, k + 1)
             ELSE IF f[pre].kind = "file"
                  THEN [fs |-> f,
                        err |-> IF k = Len(dir) THEN <<"EEXIST">> ELSE <<"ENOTDIR">>]
             ELSE IF SubSeq(dir, 1, k - 1) \in ro
                  THEN [fs |-> f, err |-> <<"EACCES">>]
             ELSE MkdirFrom([f EXCEPT ![pre] = Dir], ro, dir, k + 1)

\* a mkdirSync that makes nothing and reports no error
MkdirNothing(f, ro, dir) == [fs |-> f, err |-> <<>>]

MkdirSync(f, ro, dir) == MkdirFrom(f, ro, dir, 1)

-----------------------------------------------------------------------------
(* genOg(title, output), from the call to its await (one synchronous run) *)

InfoEntry(output, i) ==
    [level |-> "info", msg |-> "Generating", arg |-> output, by |-> i]

ErrorEntry(cause, i) ==
    [level |-> "error", msg |-> "Failed to generate og image",
     arg |-> <<<<cause>>>>, by |-> i]

\* genOg past its existence check, up to the await: the directories, the
\* lines, the rendered document and the "Generating" line; mkdirSync is
\* outside the try block, so its error leaves genOg
GenOgWork(f, ro, tpl, title, output, i) ==
    LET made == MkdirSync(f, ro, Dirname(output))
        lines == Lines(title)
    IN  IF made.err # <<>>
        THEN [og |-> "threw", fs |-> made.fs, lines |-> <<>>,
              svg |-> <<>>, logs |-> <<>>, err |-> made.err]
        ELSE [og |-> "awaiting", fs |-> made.fs, lines |-> lines,
              svg |-> Render(tpl, lines),
              logs |-> <<InfoEntry(output, i)>>, err |-> <<>>]

\* genOg without its existence check
GenOgNoCheck(f, ro, tpl, title, output, i) ==
    GenOgWork(f, ro, tpl, title, output, i)

\* a genOg that remembers the paths it has tried: it also returns at once
\* for a path it has logged "Generating" for
GenOgTriedOnce(f, ro, tpl, title, output, i) ==
    IF \/ ExistsSync(f, output)
       \/ \E k \in 1..Len(log) : log[k].level = "info" /\ log[k].arg = output
    THEN [og |-> "returned", fs |-> f, lines |-> <<>>, svg |-> <<>>,
          logs |-> <<>>, err |-> <<>>]
    ELSE GenOgWork(f, ro, tpl, title, output, i)

\* what the synchronous part of genOg leaves: how it ended ("returned" at
\* the existence check, "threw" out of mkdirSync, "awaiting" the encoder),
\* the file system, the lines, the rendered document and what it logged
GenOg(f, ro, tpl, title, output, i) ==
    IF ExistsSync(f, output)
    THEN [og |-> "returned", fs |-> f, lines |-> <<>>, svg |-> <<>>,
          logs |-> <<>>, err |-> <<>>]
    ELSE GenOgWork(f, ro, tpl, title, output, i)

\* sharp(Buffer.from(svg)).resize(1440, 810).png().toFile(output), run off
\* the main thread: the image is written ("ok"), or the rasterization, the
\* encoding or the write fails and leaves nothing at the path ("failed"), or
\* the write fails and leaves a truncated file ("partial")
SharpOutcomes == {"ok", "failed", "partial"}

\* an encoder whose file never reaches the output path
ToFileLost(f, output, svg, i, outcome) == f

\* an encoder that creates the file exclusively: it writes only where
\* nothing is
ToFileIfAbsent(f, output, svg, i, outcome) ==
    IF outcome = "ok" /\ f[output].kind = "absent"
    THEN [f EXCEPT ![output] =
             [kind |-> "file",
              data |-> [width |-> OgWidth, height |-> OgHeight,
                        doc |-> svg, by |-> i],
              writes |-> 1]]
    ELSE f

\* an encoder that writes every image to one path, the first page's
ToFileOnePath(f, output, svg, i, outcome) ==
    IF outcome = "ok"
    THEN [f EXCEPT ![OgDir \o <<<<"index", ".png">>>>] =
             [kind |-> "file",
              data |-> [width |-> OgWidth, height |-> OgHeight,
                        doc |-> svg, by |-> i],
              writes |-> @.writes + 1]]
    ELSE f

\* an encoder without resize: the image has the size the document gives it
ToFileUnsized(f, output, svg, i, outcome) ==
    IF outcome = "ok"
    THEN [f EXCEPT ![output] =
             [kind |-> "file",
              data |-> [width |-> Len(svg), height |-> Len(svg),
                        doc |-> svg, by |-> i],
              writes |-> f[output].writes + 1]]
    ELSE f

ToFile(f, output, svg, i, outcome) ==
    IF outcome = "ok"
    THEN [f EXCEPT ![output] =
             [kind |-> "file",
              data |-> [width |-> OgWidth, height |-> OgHeight,
                        doc |-> svg, by |-> i],
              writes |-> f[output].writes + 1]]
    ELSE IF outcome = "partial"
    THEN [f EXCEPT ![output] =
             [kind |-> "file",
              data |-> [NoData EXCEPT !.by = i],
              writes |-> f[output].writes + 1]]
    ELSE f

-----------------------------------------------------------------------------
(* transformPageData(pageData, { siteConfig }) *)

\* frontmatter.title || pageData.title || siteConfig.site.title, for a page
\* whose title comes from its frontmatter
TitleOf(title) == IF title # <<>> THEN title ELSE SiteTitle

\* pageData.filePath.startsWith('blog/')
IsBlogPath(filePath) ==
    Len(filePath) >= 2 /\ filePath[1] = "blog" /\ filePath[2] = "/"

\* the layout the page declares in its frontmatter
DeclaredLayout(filePath) ==
    IF filePath = <<"index", ".md">> THEN "home" ELSE "none"

\* a hook that gives a layout only to a page that declares none
SetLayoutIfNone(filePath, declared) ==
    IF IsBlogPath(filePath) /\ declared = "none" THEN "blog-post" ELSE declared

\* if (pageData.filePath.startsWith('blog/')) frontmatter.layout = 'blog-post':
\* frontmatter.layout after it, for a page that declared the given layout
SetLayout(filePath, declared) ==
    IF IsBlogPath(filePath) THEN "blog-post" ELSE declared

LayoutOf(filePath) == SetLayout(filePath, DeclaredLayout(filePath))

\* withoutTrailingSlash(filePath.replace(/(index)?\.md$/, ''))
CleanPath(filePath) ==
    LET n == Len(filePath)
        a == IF n > 0 /\ filePath[n] = ".md"
             THEN IF n > 1 /\ filePath[n - 1] = "index"
                  THEN SubSeq(filePath, 1, n - 2)
                  ELSE SubSeq(filePath, 1, n - 1)
             ELSE filePath
    IN  IF Len(a) > 0 /\ a[Len(a)] = "/" THEN SubSeq(a, 1, Len(a) - 1) ELSE a

Meta(key, content) == [key |-> key, content |-> content]

\* the entries of the site's head that describe the image of a page; every
\* page gets them
SiteHead ==
    << Meta("og:image:width", <<HeadWidth>>),
       Meta("og:image:height", <<HeadHeight>>),
       Meta("og:image:type", <<"image/png">>) >>

\* the entries pushed to frontmatter.head before genOg is called; a title is
\* carried as its text, a URL as its parts
HeadBefore(filePath, title) ==
    << Meta("og:title", <<TitleOf(title)>>),
       Meta("twitter:title", <<TitleOf(title)>>),
       Meta("og:description", <<<<"site.description">>>>),
       Meta("twitter:description", <<<<"site.description">>>>),
       Meta("canonical", <<SiteUrl, CleanPath(filePath)>>),
       Meta("og:url", <<SiteUrl, CleanPath(filePath)>>) >>

\* the entries pushed after genOg has resolved
HeadAfter(filePath) ==
    << Meta("og:image", ImageUrl(filePath)),
       Meta("twitter:image", ImageUrl(filePath)) >>

-----------------------------------------------------------------------------
(* State *)

Invs == 1..MaxInv

Idle ==
    [pc |-> "idle", og |-> "none", filePath |-> <<>>, title |-> <<>>,
     output |-> <<>>, declared |-> "none", layout |-> "none",
     bodies |-> <<>>, head |-> <<>>, lines |-> <<>>,
     svg |-> <<>>, sharp |-> "none", err |-> <<>>,
     seen |-> "none", prior |-> {}]

\* the titles of the pages of Spec: one line, and more than three lines
Titles ==
    { Title(<<5>>, <<>>, <<>>),
      Title(<<2, 2, 2, 2>>, <<"\n", "\n", "\n">>, <<>>) }

\* pageData.frontmatter.title: the title a page carries in its frontmatter
\* (the post in blog/ has the long one)
FrontmatterTitle(filePath) ==
    IF IsBlogPath(filePath)
    THEN Title(<<2, 2, 2, 2>>, <<"\n", "\n", "\n">>, <<>>)
    ELSE Title(<<5>>, <<>>, <<>>)

\* og-template.svg: markup around the three markers
Template ==
    << Tpl("<"), Tpl("{"), Tpl("{"), Tpl("title1"), Tpl("}"), Tpl("}"),
       Tpl("<"), Tpl("{"), Tpl("{"), Tpl("title2"), Tpl("}"), Tpl("}"),
       Tpl("<"), Tpl("{"), Tpl("{"), Tpl("title3"), Tpl("}"), Tpl("}"),
       Tpl(">") >>

\* a marker {{name}}
Marker(name) == <<Tpl("{"), Tpl("{"), Tpl(name), Tpl("}"), Tpl("}")>>

\* a template that uses the markers of the titles only, one of them twice
\* and one not at all, with braces that belong to no marker
TemplateTwice ==
    <<Tpl("<")>> \o Marker("title2") \o <<Tpl("{"), Tpl("<")>>
        \o Marker("title3") \o <<Tpl("}"), Tpl("}")>> \o Marker("title2")
        \o <<Tpl(">")>>

\* a template with markers of other names: one that data and its prototype
\* do not have, and one that every object inherits
TemplateOther ==
    <<Tpl("<")>> \o Marker("title1") \o <<Tpl("<")>> \o Marker("other")
        \o <<Tpl("<")>> \o Marker("constructor") \o <<Tpl(">")>>

\* the templates og-template.svg may hold
Templates == {Template, TemplateTwice, TemplateOther}

\* ogSvg before the module has assigned it
NoTemplate == <<>>

\* readFileSync(join('.vitepress', 'og-template.svg'), 'utf-8'): the text of
\* the file, or an error when the file is missing or cannot be read
ReadFileSync(templates) ==
    {[err |-> <<>>, text |-> T] : T \in templates}
        \cup {[err |-> <<e>>, text |-> <<>>] : e \in {"ENOENT", "EACCES"}}

\* the file systems a build can start from: src exists; public and og may be
\* missing, or be a file; an image of an earlier build may be there
InitFs ==
    { f \in [Paths -> {Absent, Dir, OldFile}] :
        /\ f[SrcDir] = Dir
        /\ f[OgDir] # Absent => f[PublicDir] = Dir
        /\ \A o \in Outputs :
              /\ f[o] \in {Absent, OldFile}
              /\ f[o] # Absent => f[OgDir] = Dir }

\* a directory that cannot be written matters where a directory is missing
\* under it
Init ==
    /\ fs \in InitFs
    /\ readOnly \in {{}, {SrcDir}, {PublicDir}}
    /\ \A d \in readOnly :
          \E c \in Dirs : Dirname(c) = d /\ fs[c] = Absent /\ fs[d] = Dir
    /\ ogSvg = NoTemplate
    /\ load = "pending"
    /\ inv = [i \in Invs |-> Idle]
    /\ log = <<>>

\* the genOg calls that have come to their end
Ended(i) == inv[i].og \in {"returned", "threw", "resolved"}

\* transformPageData after its await of genOg, for an invocation whose genOg
\* has ended: a rejected genOg rejects it, a resolved one lets it push the
\* image entries
AfterGenOg(r) ==
    [r EXCEPT !.pc = IF r.og = "threw" THEN "rejected" ELSE "done",
              !.head = IF r.og = "threw" THEN @ ELSE @ \o HeadAfter(r.filePath)]

\* a module that goes on after a failed read of the template
ModuleLoadedOrFailed(l) == l # "pending"

\* the configuration imports generateOg.mts statically: its hooks exist
\* once that module has been evaluated to its end
ModuleLoaded(l) == l = "done"

\* the evaluation of generateOg.mts when the configuration is loaded: the
\* template is read and bound to ogSvg; an error of readFileSync leaves the
\* module, and with it the configuration that imports it, unevaluated
LoadModule(read) ==
    /\ load = "pending"
    /\ IF read.err = <<>>
       THEN ogSvg' = read.text /\ load' = "done"
       ELSE ogSvg' = ogSvg /\ load' = "failed"
    /\ UNCHANGED <<fs, readOnly, inv, log>>

\* transformPageData from its call, for a page that declares the given
\* layout: the layout, the first entries of the
\* head, and genOg up to its await (seen is what the existence check found
\* at the output path, prior the calls that had ended); when genOg ends without awaiting the
\* encoder (it returned at the existence check, or mkdirSync threw),
\* transformPageData goes on to its end in the same turn
TransformPage(i, filePath, title, declared) ==
    /\ ModuleLoaded(load)
    /\ inv[i].pc = "idle"
    /\ \A j \in Invs : j < i => inv[j].pc # "idle"
    /\ \E r \in {GenOg(fs, readOnly, ogSvg, TitleOf(title), OutputOf(filePath), i)} :
          \E called \in
                {[pc |-> "inGenOg", og |-> r.og, filePath |-> filePath,
                  title |-> TitleOf(title), output |-> OutputOf(filePath),
                  declared |-> declared, bodies |-> <<>>,
                  layout |-> SetLayout(filePath, declared),
                  head |-> HeadBefore(filePath, title),
                  lines |-> r.lines, svg |-> r.svg, sharp |-> "none",
                  err |-> r.err, seen |-> fs[OutputOf(filePath)].kind,
                  prior |-> {j \in Invs : Ended(j)}]} :
             /\ fs' = r.fs
             /\ log' = log \o r.logs
             /\ inv' = [inv EXCEPT ![i] =
                           IF r.og = "awaiting" THEN called ELSE AfterGenOg(called)]
    /\ UNCHANGED <<readOnly, ogSvg, load>>

\* transformPageData for a page with the layout its file declares
TransformPageData(i, filePath, title) ==
    TransformPage(i, filePath, title, DeclaredLayout(filePath))

\* the encoder finishes, one way or another
Sharp(i, outcome) ==
    /\ inv[i].og = "awaiting"
    /\ fs' = ToFile(fs, inv[i].output, inv[i].svg, i, outcome)
    /\ inv' = [inv EXCEPT ![i].og = "settled", ![i].sharp = outcome]
    /\ UNCHANGED <<readOnly, ogSvg, load, log>>

\* genOg after its await, without the try block: a failure rejects the
\* promise and nothing is logged
GenOgResumeNoCatch(i) ==
    /\ inv[i].og = "settled"
    /\ inv' = [inv EXCEPT ![i] =
                  AfterGenOg([@ EXCEPT !.og = IF inv[i].sharp = "ok"
                                               THEN "resolved" ELSE "threw"])]
    /\ UNCHANGED <<fs, readOnly, ogSvg, load, log>>

\* genOg after its await: the catch block logs a failure and the promise
\* resolves; transformPageData, which awaited it, goes on to its end
GenOgResume(i) ==
    /\ inv[i].og = "settled"
    /\ log' = IF inv[i].sharp = "ok" THEN log
              ELSE Append(log, ErrorEntry(inv[i].sharp, i))
    /\ inv' = [inv EXCEPT ![i] = AfterGenOg([@ EXCEPT !.og = "resolved"])]
    /\ UNCHANGED <<fs, readOnly, ogSvg, load>>

Next ==
    \/ \E read \in ReadFileSync({Template}) : LoadModule(read)
    \/ \E i \in Invs :
          \/ \E filePath \in FilePaths, title \in Titles :
                /\ title = FrontmatterTitle(filePath)
                /\ TransformPageData(i, filePath, title)
          \/ \E outcome \in SharpOutcomes : Sharp(i, outcome)
          \/ GenOgResume(i)

Spec == Init /\ [][Next]_vars

-----------------------------------------------------------------------------
(* A build in a fresh checkout: src is there, src/public and src/public/og
   are not, and every directory can be written *)

InitFresh ==
    /\ fs = [p \in Paths |-> IF p = SrcDir THEN Dir ELSE Absent]
    /\ readOnly = {}
    /\ ogSvg = NoTemplate
    /\ load = "pending"
    /\ inv = [i \in Invs |-> Idle]
    /\ log = <<>>

SpecFresh == InitFresh /\ [][Next]_vars

-----------------------------------------------------------------------------
(* The layout: pages of a rebuild (the images of an earlier build are
   there), each with a layout declared in its frontmatter, are passed to
   transformPageData and then rendered by the Layout component *)

\* page.title of the page that is not found, and of any page titled so
Title404 == Str(<<"4", "0", "4">>)

\* frontmatter.layout as a page may declare it; "none" when it declares none
Layouts == {"none", "home", "blog", "blog-post", "page"}

LayoutPages == {<<"index", ".md">>, <<"blog", "/", "a", ".md">>}
LayoutTitles == {Title404, Title(<<5>>, <<>>, <<>>)}

\* the template of the Layout component: the page bodies inside <main>, in
\* order; Home has a v-if of its own, and the v-if of BlogIndex starts the
\* chain of v-else-if and v-else
LayoutBodies(layout, title) ==
    (IF layout = "home" THEN <<"Home">> ELSE <<>>)
        \o (IF layout = "blog" THEN <<"BlogIndex">>
            ELSE IF layout = "blog-post" THEN <<"BlogPost">>
            ELSE IF title = Title404 THEN <<"NotFound">>
            ELSE <<"Content">>)

\* the Layout component renders a page that transformPageData has finished
RenderLayout(i) ==
    /\ inv[i].pc = "done"
    /\ inv' = [inv EXCEPT ![i].pc = "rendered",
                          ![i].bodies = LayoutBodies(inv[i].layout, inv[i].title)]
    /\ UNCHANGED <<fs, readOnly, ogSvg, load, log>>

InitLayout ==
    /\ fs = [p \in Paths |-> IF p \in Dirs THEN Dir ELSE OldFile]
    /\ readOnly = {}
    /\ ogSvg = NoTemplate
    /\ load = "pending"
    /\ inv = [i \in Invs |-> Idle]
    /\ log = <<>>

NextLayout ==
    \/ \E read \in ReadFileSync({Template}) : LoadModule(read)
    \/ \E i \in Invs :
          \/ \E filePath \in LayoutPages, title \in LayoutTitles,
                declared \in Layouts :
                TransformPage(i, filePath, title, declared)
          \/ RenderLayout(i)

SpecLayout == InitLayout /\ [][NextLayout]_vars

-----------------------------------------------------------------------------
(* The segmentation and the substitution on their own: one page, built once,
   its title drawn from the titles of up to MaxWords words *)

WordLens == {2, 28, 30, 31, 61}
Seps == {" ", "\n"}
Pads == {<<>>, <<" ">>}

SeqsUpTo(S, n) == UNION {[1..m -> S] : m \in 1..n}

SegTitles ==
    UNION { { Title(lens, seps, pad) :
                seps \in [1..(Len(lens) - 1) -> Seps], pad \in Pads } :
            lens \in SeqsUpTo(WordLens, MaxWords) }
        \cup {<<>>, Str(<<" ">>), Str(<<" ", "\n">>),
              Title(<<27, 3>>, <<" ">>, <<>>),
              Str(Word(2) \o <<"\n", "\n">> \o Word(2)),
              Str(Word(30) \o <<" ", " ">> \o Word(31))}

SegPage == <<"index", ".md">>

InitSeg ==
    /\ fs \in {f \in InitFs :
                 /\ f[OgDir] = Dir
                 /\ \A o \in Outputs \ {OutputOf(SegPage)} : f[o] = Absent}
    /\ readOnly = {}
    /\ ogSvg = NoTemplate
    /\ load = "pending"
    /\ inv = [i \in Invs |-> Idle]
    /\ log = <<>>

NextSeg ==
    \/ \E read \in ReadFileSync(Templates) : LoadModule(read)
    \/ \E title \in SegTitles : TransformPageData(1, SegPage, title)
    \/ \E outcome \in SharpOutcomes : Sharp(1, outcome)
    \/ GenOgResume(1)

SpecSeg == InitSeg /\ [][NextSeg]_vars

-----------------------------------------------------------------------------
(* Properties *)

\* invocation i got past the existence check and mkdirSync: it has its lines
\* and its rendered document
Rendered(i) == inv[i].og \in {"awaiting", "settled", "resolved"}

LoggedBy(i, level) == \E k \in 1..Len(log) : log[k].by = i /\ log[k].level = level

Failed(i) == inv[i].sharp \in {"failed", "partial"}

\* C1: a call of genOg that finds a file at its output path returns at once:
\* the file system (directories and files) and the log stay as they were,
\* the encoder is not started and no error is raised.
C1_ExistingFileNoEffect ==
    [][\A i \in Invs :
          (/\ inv[i].pc = "idle"
           /\ inv'[i].pc # "idle"
           /\ fs[inv'[i].output].kind = "file")
          => (/\ fs' = fs
              /\ log' = log
              /\ inv'[i].og = "returned"
              /\ inv'[i].sharp = "none"
              /\ inv'[i].err = <<>>)]_vars

C1_Witness ==
    \E i \in Invs : inv[i].og = "returned" /\ inv[i].seen = "file"

\* C2 as stated: of two calls in sequence with the same title and the same
\* output path, the second does no raster or write work: it logs no
\* "Generating", does not start the encoder and writes nothing.
C2_SecondCallNoOp ==
    \A i, j \in Invs :
        (/\ inv[j].og # "none"
         /\ i \in inv[j].prior
         /\ inv[i].title = inv[j].title
         /\ inv[i].output = inv[j].output)
        => (/\ ~Rendered(j)
            /\ ~LoggedBy(j, "info")
            /\ fs[inv[j].output].data.by # j)

\* C2 amended: of two calls in sequence with the same title and the same
\* output path, when the first call wrote the image, the second is a no-op:
\* it returns at the existence check, logs no "Generating" and writes nothing.
C2_SecondCallNoOpAfterSuccess ==
    \A i, j \in Invs :
        (/\ inv[j].og # "none"
         /\ i \in inv[j].prior
         /\ inv[i].title = inv[j].title
         /\ inv[i].output = inv[j].output
         /\ inv[i].sharp = "ok")
        => (/\ inv[j].og = "returned"
            /\ ~LoggedBy(j, "info")
            /\ inv[j].sharp = "none"
            /\ fs[inv[j].output].data.by # j)

C2_Witness ==
    \E i, j \in Invs :
        /\ i \in inv[j].prior
        /\ inv[i].title = inv[j].title
        /\ inv[i].output = inv[j].output
        /\ inv[i].sharp = "ok"
        /\ LoggedBy(i, "info")
        /\ inv[j].og = "returned"

\* C3 as stated: once a file exists at an output path, no step of any
\* invocation changes it.
C3_NeverOverwritten ==
    [][\A p \in Outputs : fs[p].kind = "file" => fs'[p] = fs[p]]_vars

\* C3 amended: once a file exists at an output path, no invocation called
\* afterwards writes that path: a step that writes over an existing file is
\* the encoder of an invocation that had passed its existence check before
\* the file was there.
C3_OverwrittenOnlyByEarlierCall ==
    [][\A p \in Outputs :
          (fs[p].kind = "file" /\ fs'[p] # fs[p])
          => \E i \in Invs :
                /\ inv[i].og = "awaiting"
                /\ inv'[i].og = "settled"
                /\ inv[i].output = p
                /\ inv[i].seen = "absent"
                /\ fs'[p].data.by = i]_vars

C3_Witness ==
    \E i, j \in Invs :
        /\ i # j
        /\ inv[i].output = inv[j].output
        /\ inv[i].seen = "absent"
        /\ inv[j].seen = "absent"
        /\ inv[i].sharp = "ok"
        /\ inv[j].sharp = "ok"
        /\ fs[inv[i].output].writes = 2

\* C4: a failure of the rasterization, the encoding or the write is caught
\* in genOg: the promise is never rejected, and once it has resolved an error
\* has been logged for the invocation.
C4_EncoderFailureContained ==
    \A i \in Invs :
        Failed(i)
        => (/\ inv[i].og \in {"settled", "resolved"}
            /\ inv[i].pc # "rejected"
            /\ (inv[i].og = "resolved" => LoggedBy(i, "error")))

C4_Witness ==
    \E i \in Invs :
        /\ inv[i].sharp = "failed"
        /\ inv[i].og = "resolved"
        /\ inv[i].pc = "done"

\* C5: a failure of the directory creation is caught in genOg: the promise
\* is not rejected, and the failure is logged.
C5_MkdirFailureContained ==
    \A i \in Invs :
        inv[i].err # <<>>
        => (/\ inv[i].og # "threw"
            /\ inv[i].pc # "rejected"
            /\ LoggedBy(i, "error"))

\* C6: whatever fails in the image generation of a page, transformPageData
\* completes for the page and appends the og:image and twitter:image entries
\* with the URL of the name passed to genOg.
C6_PageCompletes ==
    \A i \in Invs :
        Ended(i)
        => (/\ inv[i].pc = "done"
            /\ \E k \in 1..Len(inv[i].head) :
                  inv[i].head[k] = Meta("og:image", ImageUrl(inv[i].filePath))
            /\ \E k \in 1..Len(inv[i].head) :
                  inv[i].head[k] = Meta("twitter:image", ImageUrl(inv[i].filePath)))

\* every directory of the parent chain of a path is there
ChainExists(f, output) ==
    \A k \in 1..(Len(output) - 1) : f[SubSeq(output, 1, k)].kind = "dir"

\* C14: in a build that starts without the parent directories of the output
\* paths, the directories are made before the image is rasterized and
\* written, and after a call in which nothing failed they and the file are
\* there: when genOg reaches its await every directory of the parent chain
\* of the output path exists and the call has written nothing at the path;
\* when the encoder ends the chain exists, and a successful encoder leaves
\* the file at the path; when genOg resolves after a successful encoder the
\* chain and the file are there.
C14_DirsBeforeFile ==
    [][\A i \in Invs :
          /\ (inv[i].og = "none" /\ inv'[i].og = "awaiting")
             => (/\ ChainExists(fs', inv'[i].output)
                 /\ fs'[inv'[i].output] = fs[inv'[i].output])
          /\ (inv[i].og = "awaiting" /\ inv'[i].og = "settled")
             => (/\ ChainExists(fs, inv[i].output)
                 /\ inv'[i].sharp = "ok"
                    => (/\ fs'[inv[i].output].kind = "file"
                        /\ fs'[inv[i].output].data.by = i))
          /\ (inv'[i].og = "resolved" /\ inv'[i].sharp = "ok")
             => (/\ ChainExists(fs', inv'[i].output)
                 /\ fs'[inv'[i].output].kind = "file")]_vars

C14_Witness ==
    /\ inv[1].seen = "absent"
    /\ inv[1].og = "resolved"
    /\ inv[1].sharp = "ok"
    /\ ChainExists(fs, inv[1].output)
    /\ fs[inv[1].output].kind = "file"
    /\ fs[inv[1].output].data.by = 1

\* C16: distinct pages have distinct output paths: two invocations for
\* different file paths never pass the same output path to genOg.
C16_DistinctOutputs ==
    \A i, j \in Invs :
        (/\ inv[i].pc # "idle"
         /\ inv[j].pc # "idle"
         /\ inv[i].filePath # inv[j].filePath)
        => inv[i].output # inv[j].output

\* C17: a template that is missing or cannot be read fails the load of the
\* module, once and before any call of genOg: after the failure no page is
\* processed (no invocation starts, nothing is written, nothing is logged),
\* and no invocation ever starts before the template has been loaded.
C17_TemplateLoadFailure ==
    /\ load = "failed"
       => (/\ ogSvg = NoTemplate
           /\ \A i \in Invs : inv[i] = Idle
           /\ \A p \in Paths : fs[p].writes = 0 /\ fs[p].data.by = 0
           /\ log = <<>>)
    /\ (\E i \in Invs : inv[i].pc # "idle")
       => (load = "done" /\ ogSvg # NoTemplate)

\* the load has failed, and no step of the program is left
C17_Witness == load = "failed" /\ ~ENABLED Next

\* C18: when the rasterization or the write has failed, there is no file at
\* the output path once genOg has returned.
C18_NoFileAfterFailure ==
    \A i \in Invs :
        (inv[i].og = "resolved" /\ Failed(i))
        => fs[inv[i].output].kind = "absent"

\* the paths a call of genOg with this output path may change: the path
\* itself and the directories above it
OwnPaths(output) == {SubSeq(output, 1, k) : k \in 1..Len(output)}

\* C20: a step of an invocation changes nothing in the file system but the
\* file at its own output path and the directories of that path's parent
\* chain (which it only creates), so it leaves the output file of every
\* invocation with another path as it is; and once the template is loaded,
\* no step changes it.
C20_OwnPathOnly ==
    [][/\ \A i \in Invs :
             inv'[i] # inv[i]
             => (/\ \A p \in Paths :
                       fs'[p] # fs[p]
                       => (/\ p \in OwnPaths(inv'[i].output)
                           /\ p # inv'[i].output
                              => (fs[p] = Absent /\ fs'[p] = Dir))
                 /\ \A j \in Invs :
                       (inv[j].pc # "idle" /\ inv[j].output # inv'[i].output)
                       => fs'[inv[j].output] = fs[inv[j].output])
       /\ inv' = inv => fs' = fs
       /\ load = "done" => ogSvg' = ogSvg]_vars

\* two invocations with different output paths, the second called while the
\* first awaited its encoder, have each written their own file
C20_Witness ==
    /\ inv[1].og = "settled"
    /\ inv[2].og = "settled"
    /\ inv[1].output # inv[2].output
    /\ inv[1].prior = {} /\ inv[2].prior = {}
    /\ fs[inv[1].output].data.by = 1
    /\ fs[inv[2].output].data.by = 2
    /\ fs[inv[1].output].data.doc = Render(Template, inv[1].lines)
    /\ ogSvg = Template

\* C21: the existence check and the creation of the file are two steps:
\* an invocation that awaits its encoder has found nothing at its path,
\* whatever is there by now, and an encoder that succeeds writes the file
\* without a second look, also over a file that another invocation has
\* written in the meantime.
C21_CheckThenWrite ==
    [][\A i \in Invs :
          (inv[i].og = "awaiting" /\ inv'[i].og = "settled" /\ inv'[i].sharp = "ok")
          => (/\ inv[i].seen = "absent"
              /\ fs'[inv[i].output].writes = fs[inv[i].output].writes + 1
              /\ fs'[inv[i].output].data.by = i)]_vars

\* two invocations for one path that was empty have both passed the
\* existence check, logged "Generating" and encoded, and the path has been
\* written twice
C21_Witness ==
    \E i, j \in Invs :
        /\ i < j
        /\ inv[i].output = inv[j].output
        /\ i \notin inv[j].prior
        /\ inv[i].seen = "absent" /\ inv[j].seen = "absent"
        /\ LoggedBy(i, "info") /\ LoggedBy(j, "info")
        /\ inv[i].sharp = "ok" /\ inv[j].sharp = "ok"
        /\ fs[inv[i].output].writes = 2

\* the output path stands in the text of a log entry
NamesPath(entry, output) ==
    \E a \in 1..Len(entry.arg) :
        /\ a + Len(output) - 1 <= Len(entry.arg)
        /\ SubSeq(entry.arg, a, a + Len(output) - 1) = output

\* C22: the error entry logged for a failure of the rasterization, the
\* encoding or the write names the output path that failed, and the cause.
C22_ErrorNamesPath ==
    \A k \in 1..Len(log) :
        log[k].level = "error"
        => (/\ NamesPath(log[k], inv[log[k].by].output)
            /\ \E a \in 1..Len(log[k].arg) :
                  log[k].arg[a] = <<inv[log[k].by].sharp>>)

\* C24: a failed generation is not cached: when an invocation whose
\* rasterization or write failed has left nothing at the output path, a
\* later invocation that finds the path empty does not return at the
\* existence check: it logs "Generating" and starts the encoder again.
C24_FailureNotCached ==
    \A i, j \in Invs :
        (/\ i \in inv[j].prior
         /\ inv[i].output = inv[j].output
         /\ inv[i].sharp = "failed"
         /\ inv[j].seen = "absent")
        => (/\ Rendered(j)
            /\ LoggedBy(j, "info")
            /\ inv[j].og # "awaiting" => inv[j].sharp \in SharpOutcomes)

C24_Witness ==
    \E i, j \in Invs :
        /\ i \in inv[j].prior
        /\ inv[i].output = inv[j].output
        /\ inv[i].sharp = "failed"
        /\ LoggedBy(i, "error")
        /\ inv[j].seen = "absent"
        /\ inv[j].sharp = "ok"
        /\ fs[inv[j].output].data.by = j
        /\ fs[inv[j].output].writes = 1

\* the content of the entries of a head with the given key
Declared(head, key) ==
    {head[k].content : k \in {m \in 1..Len(head) : head[m].key = key}}

\* C25: the width and the height the site declares for the image of every
\* page are those of the image genOg has written for the page.
C25_DeclaredSizeIsImageSize ==
    \A i \in Invs :
        (/\ inv[i].pc = "done"
         /\ inv[i].sharp = "ok"
         /\ fs[inv[i].output].data.doc # <<>>)
        => (/\ Declared(SiteHead, "og:image:width")
                  = {<<fs[inv[i].output].data.width>>}
            /\ Declared(SiteHead, "og:image:height")
                  = {<<fs[inv[i].output].data.height>>})

-----------------------------------------------------------------------------
(* Properties of the segmentation, on the titles of SpecSeg *)

\* the characters of the title in a text, in order
TitleChars(text) == SelectSeq(text, LAMBDA ch : ch.at > 0)

RECURSIVE Concat(_)
Concat(ss) == IF ss = <<>> THEN <<>> ELSE Head(ss) \o Concat(Tail(ss))

\* the index in the title of the last character of a line
LastAt(line) == line[Len(line)].at

\* C7: at most three lines reach the rendered document: the characters of
\* the title in it are characters of the first three lines (with the
\* template of the three markers, those lines in order), and when there are
\* more than three lines no character of the title after the end of the
\* third is in it.
C7_OnlyFirstThreeLines ==
    \A i \in Invs :
        Rendered(i)
        => LET lines == inv[i].lines
               three == SubSeq(lines, 1, IF Len(lines) < 3 THEN Len(lines) ELSE 3)
           IN  /\ Range(TitleChars(inv[i].svg)) \subseteq Range(Concat(three))
               /\ ogSvg = Template => TitleChars(inv[i].svg) = Concat(three)
               /\ Len(lines) > 3
                  => \A k \in 1..Len(inv[i].title) :
                        k > LastAt(lines[3])
                        => inv[i].title[k] \notin Range(inv[i].svg)

C7_Witness ==
    \E i \in Invs :
        /\ Rendered(i)
        /\ Len(inv[i].lines) > 3
        /\ TitleChars(inv[i].svg) # <<>>

\* the positions (1-based) of the whitespace characters of a title
Spaces(title) == {k \in 1..Len(title) : IsSpace(title[k])}

\* C8: a title of exactly 30 characters without whitespace gives one line,
\* the title; a title of 31 characters whose only whitespace is a space at
\* position 28 (counted from 0, or from 1) gives two lines, the text before
\* the space and the text after it.
C8_Boundary ==
    \A i \in Invs :
        Rendered(i)
        => LET title == inv[i].title
           IN  /\ (Len(title) = 30 /\ Spaces(title) = {})
                  => inv[i].lines = <<title>>
               /\ \A sp \in {28, 29} :
                     (Len(title) = 31 /\ Spaces(title) = {sp} /\ title[sp].c = " ")
                     => inv[i].lines =
                            <<SubSeq(title, 1, sp - 1), SubSeq(title, sp + 1, 31)>>

C8_Witness ==
    \E i \in Invs :
        /\ Rendered(i)
        /\ Len(inv[i].title) = 31
        /\ Spaces(inv[i].title) = {29}
        /\ Len(inv[i].lines) = 2

\* C9: every line is at most 30 characters long.
C9_LinesAtMostLimit ==
    \A i \in Invs :
        Rendered(i)
        => \A n \in 1..Len(inv[i].lines) : Len(inv[i].lines[n]) <= Limit

\* the boundary between line n and line n + 1 falls at whitespace: the
\* characters of the title between the two lines are whitespace, and there
\* is one at least
AtWhitespace(title, lines, n) ==
    LET a == LastAt(lines[n])
        b == lines[n + 1][1].at
    IN  /\ a + 1 < b
        /\ \A k \in (a + 1)..(b - 1) : IsSpace(title[k])

\* the length of the whitespace-free run of the title around position k
RECURSIVE RunLeft(_, _)
RunLeft(title, k) ==
    IF k >= 1 /\ ~IsSpace(title[k]) THEN 1 + RunLeft(title, k - 1) ELSE 0

RECURSIVE RunRight(_, _)
RunRight(title, k) ==
    IF k <= Len(title) /\ ~IsSpace(title[k]) THEN 1 + RunRight(title, k + 1) ELSE 0

WordLen(title, k) == RunLeft(title, k) + RunRight(title, k + 1)

\* C10 as stated: every boundary between two consecutive lines falls at
\* whitespace.
C10_NoWordBroken ==
    \A i \in Invs :
        Rendered(i)
        => \A n \in 1..(Len(inv[i].lines) - 1) :
              AtWhitespace(inv[i].title, inv[i].lines, n)

\* C10 amended: every boundary between two consecutive lines falls at
\* whitespace, or inside a whitespace-free run of more than 30 characters:
\* no whitespace-free run of at most 30 characters is divided.
C10_NoShortWordBroken ==
    \A i \in Invs :
        Rendered(i)
        => \A n \in 1..(Len(inv[i].lines) - 1) :
              \/ AtWhitespace(inv[i].title, inv[i].lines, n)
              \/ /\ inv[i].lines[n + 1][1].at = LastAt(inv[i].lines[n]) + 1
                 /\ WordLen(inv[i].title, LastAt(inv[i].lines[n])) > Limit

C10_Witness ==
    \E i \in Invs :
        /\ Rendered(i)
        /\ Len(inv[i].lines) = 3
        /\ AtWhitespace(inv[i].title, inv[i].lines, 1)
        /\ ~AtWhitespace(inv[i].title, inv[i].lines, 2)
        /\ WordLen(inv[i].title, LastAt(inv[i].lines[1])) <= Limit

\* the first position (0-based) from e on that holds a whitespace character,
\* the length of the text when there is none
RECURSIVE NextSpace(_, _)
NextSpace(S, e) ==
    IF e >= Len(S) THEN Len(S)
    ELSE IF IsSpace(S[e + 1]) THEN e
    ELSE NextSpace(S, e + 1)

\* the word-wrap with a soft limit: from position p a segment takes 30
\* characters, runs on to the next whitespace or to the end, and the next
\* segment starts after that whitespace
RECURSIVE SoftWrap(_, _)
SoftWrap(S, p) ==
    IF p >= Len(S) THEN <<>>
    ELSE LET e == IF p + 30 >= Len(S) THEN Len(S) ELSE NextSpace(S, p + 30)
         IN  <<Slice(S, p, e)>> \o SoftWrap(S, e + 1)

SoftWrapOf(title) == SoftWrap(TrimEnd(TrimStart(title)), 0)

\* C19 as stated: the lines are those of the word-wrap with a soft limit of
\* 30: a line takes 30 characters of the trimmed title and ends at the next
\* whitespace after them, or at the end.
C19_EqualsSoftWrap ==
    \A i \in Invs :
        Rendered(i) => inv[i].lines = SoftWrapOf(inv[i].title)

\* the whitespace between line n and line n + 1 holds no line terminator
SameRow(title, lines, n) ==
    \A k \in (LastAt(lines[n]) + 1)..(lines[n + 1][1].at - 1) : title[k].c # "\n"

\* C19 amended: the lines are those of a greedy word-wrap with a hard limit
\* of 30: a line never runs past 30 characters to reach the next whitespace
\* (a line of more than 30 characters is the head of a whitespace-free run
\* of more than 30, cut off before its last 30 characters), and a line that
\* ends at whitespace other than a line break holds all it can: with the
\* word that follows it, it would be longer than 30 characters.
C19_HardLimitWrap ==
    \A i \in Invs :
        Rendered(i)
        => LET title == inv[i].title
               lines == inv[i].lines
           IN  /\ \A n \in 1..Len(lines) :
                     \/ Len(lines[n]) <= 30
                     \/ /\ n < Len(lines)
                        /\ lines[n + 1][1].at = LastAt(lines[n]) + 1
                        /\ Len(lines[n + 1]) = 30
                        /\ WordLen(title, LastAt(lines[n])) > 30
               /\ \A n \in 1..(Len(lines) - 1) :
                     (AtWhitespace(title, lines, n) /\ SameRow(title, lines, n))
                     => lines[n + 1][1].at + RunRight(title, lines[n + 1][1].at)
                            - lines[n][1].at > 30

C19_Witness ==
    \E i \in Invs :
        /\ Rendered(i)
        /\ Len(inv[i].lines) = 2
        /\ AtWhitespace(inv[i].title, inv[i].lines, 1)
        /\ SameRow(inv[i].title, inv[i].lines, 1)
        /\ Len(inv[i].lines[1]) < 30
        /\ Len(SoftWrapOf(inv[i].title)) = 1

\* the characters of a text that are not whitespace, in order
Ink(text) == SelectSeq(text, LAMBDA ch : ~IsSpace(ch))

\* the lines are pieces of the title, in order, from the first character of
\* the trimmed title to its last
Covers(title, lines) ==
    /\ \A n \in 1..Len(lines) :
          lines[n] = SubSeq(title, lines[n][1].at, LastAt(lines[n]))
    /\ lines[1][1].at = TrimStart(title)[1].at
    /\ LastAt(lines[Len(lines)]) = LastAt(TrimEnd(title))

\* C23 as stated: the lines, put together, are the trimmed title with
\* exactly one whitespace character taken out at each break.
C23_OneWhitespacePerBreak ==
    \A i \in Invs :
        (Rendered(i) /\ inv[i].lines # <<>>)
        => (/\ Covers(inv[i].title, inv[i].lines)
            /\ \A n \in 1..(Len(inv[i].lines) - 1) :
                  /\ inv[i].lines[n + 1][1].at = LastAt(inv[i].lines[n]) + 2
                  /\ IsSpace(inv[i].title[LastAt(inv[i].lines[n]) + 1]))

\* C23 amended: the lines, put together, are the trimmed title with
\* whitespace taken out between lines and nothing else: what lies between
\* two consecutive lines is whitespace only, and there is nothing between
\* them only where the break divides a whitespace-free run of more than 30
\* characters; so every non-whitespace character of the title is in the
\* lines, in order, and for a title of at most three lines in the rendered
\* document.
C23_OnlyWhitespaceLost ==
    \A i \in Invs :
        (Rendered(i) /\ inv[i].lines # <<>>)
        => LET title == inv[i].title
               lines == inv[i].lines
           IN  /\ Covers(title, lines)
               /\ \A n \in 1..(Len(lines) - 1) :
                     /\ LastAt(lines[n]) < lines[n + 1][1].at
                     /\ \A k \in (LastAt(lines[n]) + 1)..(lines[n + 1][1].at - 1) :
                           IsSpace(title[k])
                     /\ lines[n + 1][1].at = LastAt(lines[n]) + 1
                        => WordLen(title, LastAt(lines[n])) > 30
               /\ Ink(Concat(lines)) = Ink(title)
               /\ (Len(lines) <= 3 /\ ogSvg = Template)
                  => Ink(TitleChars(inv[i].svg)) = Ink(title)

C23_Witness ==
    \E i \in Invs :
        /\ Rendered(i)
        /\ ogSvg = Template
        /\ Len(inv[i].lines) = 3
        /\ inv[i].lines[2][1].at = LastAt(inv[i].lines[1]) + 2
        /\ inv[i].lines[3][1].at = LastAt(inv[i].lines[2]) + 1
        /\ Ink(TitleChars(inv[i].svg)) = Ink(inv[i].title)
        /\ Len(Ink(inv[i].title)) > 30

-----------------------------------------------------------------------------
(* Properties of the substitution, on the titles and templates of SpecSeg *)

TitleNames == {"title1", "title2", "title3"}

\* a marker of the template stands at position k (1-based) of a text, with
\* a name of the given set
MarkerIn(text, k, names) ==
    /\ k + 4 <= Len(text)
    /\ \A d \in 0..4 : text[k + d].at = 0
    /\ text[k].c = "{" /\ text[k + 1].c = "{"
    /\ text[k + 2].c \in names
    /\ text[k + 3].c = "}" /\ text[k + 4].c = "}"

NoTitleMarker(text) == \A k \in 1..Len(text) : ~MarkerIn(text, k, TitleNames)

\* the line a title name stands for
LineOf(lines, name) ==
    IF name = "title1" THEN LineAt(lines, 1)
    ELSE IF name = "title2" THEN LineAt(lines, 2)
    ELSE LineAt(lines, 3)

\* the template with each marker of a title replaced by its line, the rest
\* of the template as it is
RECURSIVE Fill(_, _)
Fill(T, lines) ==
    IF T = <<>> THEN <<>>
    ELSE IF MarkerIn(T, 1, TitleNames)
    THEN LineOf(lines, T[3].c) \o Fill(SubSeq(T, 6, Len(T)), lines)
    ELSE <<Head(T)>> \o Fill(Tail(T), lines)

AllSpace(title) == \A k \in 1..Len(title) : IsSpace(title[k])

\* C11: for an empty or whitespace-only title there are no lines, the
\* markers title1, title2 and title3 are all replaced by the empty string
\* (the rendered document is the template without them and holds no
\* character of the title), and genOg raises no error: it does not throw
\* and, when the encoder succeeds, logs no error.
C11_EmptyTitle ==
    /\ Lines(<<>>) = <<>>
    /\ NoTitleMarker(Render(ogSvg, Lines(<<>>)))
    /\ \A i \in Invs :
          (Rendered(i) /\ AllSpace(inv[i].title))
          => (/\ inv[i].lines = <<>>
              /\ TitleChars(inv[i].svg) = <<>>
              /\ NoTitleMarker(inv[i].svg)
              /\ TitleChars(Fill(ogSvg, inv[i].lines)) = <<>>
              /\ ogSvg \in {Template, TemplateTwice}
                 => inv[i].svg = Fill(ogSvg, <<>>)
              /\ inv[i].err = <<>>
              /\ inv[i].pc # "rejected"
              /\ (inv[i].og = "resolved" /\ inv[i].sharp = "ok")
                 => (~LoggedBy(i, "error") /\ inv[i].pc = "done"))

C11_Witness ==
    \E i \in Invs :
        /\ inv[i].title # <<>>
        /\ AllSpace(inv[i].title)
        /\ inv[i].og = "resolved"
        /\ inv[i].sharp = "ok"
        /\ inv[i].svg = <<Tpl("<"), Tpl("<"), Tpl("<"), Tpl(">")>>

\* C12: every occurrence of the markers title1, title2 and title3 in the
\* template is replaced by the first, second and third line, or by the
\* empty string when there is no such line: the rendered document holds no
\* title marker of the template, the characters of the title in it are the
\* lines in the order of the markers, and for a template whose markers are
\* all title markers it is the template with each marker replaced.
C12_TitleMarkersReplaced ==
    \A i \in Invs :
        Rendered(i)
        => (/\ NoTitleMarker(inv[i].svg)
            /\ TitleChars(inv[i].svg) = TitleChars(Fill(ogSvg, inv[i].lines))
            /\ ogSvg \in {Template, TemplateTwice}
               => inv[i].svg = Fill(ogSvg, inv[i].lines))

C12_Witness ==
    \E i \in Invs :
        /\ Rendered(i)
        /\ ogSvg = TemplateTwice
        /\ Len(inv[i].lines) = 2
        /\ inv[i].svg = <<Tpl("<")>> \o inv[i].lines[2]
                            \o <<Tpl("{"), Tpl("<"), Tpl("}"), Tpl("}")>>
                            \o inv[i].lines[2] \o <<Tpl(">")>>

\* the names of the markers of the templates
MarkerNames == TitleNames \cup {"other", "constructor"}

\* the template without its markers
RECURSIVE Strip(_)
Strip(T) ==
    IF T = <<>> THEN <<>>
    ELSE IF MarkerIn(T, 1, MarkerNames) THEN Strip(SubSeq(T, 6, Len(T)))
    ELSE <<Head(T)>> \o Strip(Tail(T))

\* the characters of a text that are not characters of the title
TemplateChars(text) == SelectSeq(text, LAMBDA ch : ch.at = 0)

\* C13: every marker of the template whose name is not title1, title2 or
\* title3 is replaced by the empty string, whatever the name (a name every
\* object inherits, such as constructor, included): apart from the
\* characters of the title, the rendered document is the template without
\* its markers.
C13_OtherMarkersEmptied ==
    \A i \in Invs :
        Rendered(i) => TemplateChars(inv[i].svg) = Strip(ogSvg)

\* C15: every image genOg writes is 1440 pixels wide and 810 high, whatever
\* the title and its length: a file left at an output path by an invocation
\* whose encoder succeeded holds the image of the invocation's rendered
\* document at that size.
C15_FixedSize ==
    \A p \in Outputs :
        (/\ fs[p].kind = "file"
         /\ fs[p].data.by \in Invs
         /\ inv[fs[p].data.by].sharp = "ok")
        => (/\ fs[p].data.width = 1440
            /\ fs[p].data.height = 810
            /\ fs[p].data.doc = inv[fs[p].data.by].svg)

C15_Witness ==
    \E p \in Outputs, i \in Invs :
        /\ fs[p].kind = "file"
        /\ fs[p].data.by = i
        /\ inv[i].sharp = "ok"
        /\ Len(inv[i].title) > 2 * Limit
        /\ fs[p].data.width = 1440

-----------------------------------------------------------------------------
(* Properties of the layout, on the pages of SpecLayout *)

\* C26: the Layout component renders exactly one page body (Home,
\* BlogIndex, BlogPost, NotFound or Content) whatever the layout and the
\* title of the page, and for the layout 'home' that body is Home.
C26_OneBody ==
    \A i \in Invs :
        inv[i].pc = "rendered"
        => (/\ Len(inv[i].bodies) = 1
            /\ inv[i].layout = "home" => inv[i].bodies = <<"Home">>)

\* C27: transformPageData gives the layout 'blog-post' to every page whose
\* file path starts with 'blog/', whatever layout the page declares, and
\* leaves the layout of every other page as declared.
C27_BlogLayout ==
    \A i \in Invs :
        inv[i].pc # "idle"
        => (IF Len(inv[i].filePath) >= 2
               /\ inv[i].filePath[1] = "blog" /\ inv[i].filePath[2] = "/"
            THEN inv[i].layout = "blog-post"
            ELSE inv[i].layout = inv[i].declared)

\* a page under blog/ that declares the layout of the blog index has been
\* rendered as a post, and a page elsewhere has kept the layout it declares
C27_Witness ==
    \E i, j \in Invs :
        /\ inv[i].filePath = <<"blog", "/", "a", ".md">>
        /\ inv[i].declared = "blog"
        /\ inv[i].layout = "blog-post"
        /\ inv[i].bodies = <<"BlogPost">>
        /\ inv[j].filePath = <<"index", ".md">>
        /\ inv[j].declared = "blog"
        /\ inv[j].layout = "blog"
        /\ inv[j].bodies = <<"BlogIndex">>

=============================================================================
